---------------------------- MODULE Spec2Model ----------------------------
(***************************************************************************)
(* A model of src/cdns.py, the forwarding DNS server: the TimedCache, the  *)
(* wire codec (names, header, questions, answers), handle_dns_query and    *)
(* the two dispatch loops, start (sequential) and start_threaded.          *)
(*                                                                         *)
(* Conventions.  Bytes objects are sequences of numbers 0..255.  A Python  *)
(* str is a sequence of character codes.  Offsets into a buffer are        *)
(* 0-based as in the source, so buf[idx] of the source is buf[idx + 1]     *)
(* here.  An operation that may raise returns Ok(v) or Err(kind), kind the *)
(* name of the Python exception.                                           *)
(***************************************************************************)
EXTENDS Integers, Sequences, FiniteSets, TLC

Ok(v) == [ok |-> TRUE, v |-> v, exc |-> ""]
Err(kind) == [ok |-> FALSE, v |-> <<>>, exc |-> kind]

\* r is the outcome of a call: what it raised goes on to the caller, and
\* otherwise the caller goes on, F, with the value returned.
\* Python works out r once, before the caller goes on: so does the set
\* constructor here, which also keeps TLC from working it out at every use.
Try(r, F(_)) == CHOOSE y \in {IF ~x.ok THEN x ELSE F(x.v) : x \in {r}} : TRUE

\* v is worked out once and handed to F.
With(v, F(_)) == CHOOSE y \in {F(x) : x \in {v}} : TRUE

Min(a, b) == IF a <= b THEN a ELSE b

\* Python's s[lo:hi] on a bytes or str object: lenient, never raises.
Slice(s, lo, hi) ==
  LET h == Min(hi, Len(s))
  IN  IF lo >= h THEN <<>> ELSE SubSeq(s, lo + 1, h)

\* list.insert(idx, x) for idx >= 0: an index past the end appends.
Insert(s, idx, x) ==
  LET k == Min(idx, Len(s))
  IN  SubSeq(s, 1, k) \o <<x>> \o SubSeq(s, k + 1, Len(s))

\* struct.pack("!H", n) and struct.pack("!I", n): struct.error out of range.
U16(n) == <<n \div 256, n % 256>>
U32(n) == <<n \div 16777216, (n \div 65536) % 256, (n \div 256) % 256, n % 256>>
InU16(n) == n >= 0 /\ n <= 65535
InU32(n) == n >= 0 /\ n \div 65536 <= 65535

\* struct.unpack("!H", b)[0] and struct.unpack("!I", b)[0] of exactly 2 and 4 bytes.
FromU16(b) == b[1] * 256 + b[2]
FromU32(b) == ((b[1] * 256 + b[2]) * 256 + b[3]) * 256 + b[4]

\* Bitwise or of two naturals, as Python's | computes it.
RECURSIVE BitOr(_, _)
BitOr(a, b) ==
  With(a, LAMBDA x : With(b, LAMBDA y :
    IF x = 0 THEN y
    ELSE IF y = 0 THEN x
    ELSE (IF x % 2 = 1 \/ y % 2 = 1 THEN 1 ELSE 0) + 2 * BitOr(x \div 2, y \div 2)))

Dot == 46

\* str.split("."): the labels between the dots; "" splits into [""].
\* DotAt(name, k) is the place of the k-th dot, 0 before the first and
\* Len(name) + 1 after the last.
Dots(name) == {i \in 1..Len(name) : name[i] = Dot}

DotAt(name, k) ==
  IF k = 0 THEN 0
  ELSE IF k > Cardinality(Dots(name)) THEN Len(name) + 1
  ELSE CHOOSE i \in Dots(name) : Cardinality({j \in Dots(name) : j < i}) = k - 1

split(name) ==
  [k \in 1..(Cardinality(Dots(name)) + 1) |->
     SubSeq(name, DotAt(name, k - 1) + 1, DotAt(name, k) - 1)]

\* ".".join(labels)
RECURSIVE join(_)
join(labels) ==
  IF Len(labels) = 0 THEN <<>>
  ELSE IF Len(labels) = 1 THEN labels[1]
  ELSE labels[1] \o <<Dot>> \o join(Tail(labels))

IsAscii(s) == \A k \in 1..Len(s) : s[k] <= 127

\* encode_name_uncompressed: each label as a length byte and its ASCII bytes,
\* then a zero byte.  bytes([n]) raises ValueError for n > 255 and
\* str.encode("ascii") raises UnicodeEncodeError; no other check is made.
RECURSIVE EncodeLabels(_)
EncodeLabels(labels) ==
  IF Len(labels) = 0 THEN Ok(<<>>)
  ELSE IF Len(labels[1]) > 255 THEN Err("ValueError")
  ELSE IF ~IsAscii(labels[1]) THEN Err("UnicodeEncodeError")
  ELSE Try(EncodeLabels(Tail(labels)),
           LAMBDA rest : Ok(<<Len(labels[1])>> \o labels[1] \o rest))

encode_name_uncompressed(name) ==
  Try(EncodeLabels(split(name)), LAMBDA e : Ok(e \o <<0>>))

\* decode_name(buf, start_idx) -> (name, idx).  visited is the set of the
\* offsets this call has read a length byte at; every recursive call starts
\* with a fresh one (line 122), so a pointer chain that comes back to an
\* offset is not seen by the check of line 125: the recursion goes on until
\* the interpreter's recursion limit raises RecursionError.  A chain with no
\* repeated target is shorter than the 512-byte buffer allows frames, so the
\* limit is hit exactly when a target repeats; frames is the set of the
\* start offsets of the calls in progress.
RECURSIVE decode_name_at(_, _, _, _, _)
decode_name_at(buf, idx, labels, visited, frames) ==
  IF idx \in visited THEN Err("loop detected")
  ELSE IF idx >= Len(buf) THEN Err("IndexError")
  ELSE LET length == buf[idx + 1]
       IN  IF length = 0 THEN Ok(<<join(labels), idx + 1>>)
           ELSE IF length >= 192
             THEN IF Len(buf) - idx < 2 THEN Err("struct.error")
                  ELSE LET pointer == FromU16(Slice(buf, idx, idx + 2)) % 16384
                       IN  IF pointer \in frames THEN Err("RecursionError")
                           ELSE Try(decode_name_at(buf, pointer, <<>>, {},
                                                   frames \cup {pointer}),
                                    LAMBDA r : Ok(<<join(Append(labels, r[1])), idx + 2>>))
             ELSE LET raw == Slice(buf, idx + 1, idx + 1 + length)
                  IN  IF ~IsAscii(raw) THEN Err("UnicodeDecodeError")
                      ELSE decode_name_at(buf, idx + 1 + length, Append(labels, raw),
                                          visited \cup {idx}, frames)

decode_name(buf, start_idx) == decode_name_at(buf, start_idx, <<>>, {}, {start_idx})

\* The dataclasses.
DNSHeader(id, qr, opcode, aa, tc, rd, ra, z, rcode, qdcount, ancount, nscount, arcount) ==
  [id |-> id, qr |-> qr, opcode |-> opcode, aa |-> aa, tc |-> tc, rd |-> rd,
   ra |-> ra, z |-> z, rcode |-> rcode, qdcount |-> qdcount, ancount |-> ancount,
   nscount |-> nscount, arcount |-> arcount]

DNSQuestion(decoded_name, type_, class_) ==
  [decoded_name |-> decoded_name, type_ |-> type_, class_ |-> class_]

DNSAnswer(decoded_name, type_, class_, ttl, rdlength, rdata) ==
  [decoded_name |-> decoded_name, type_ |-> type_, class_ |-> class_,
   ttl |-> ttl, rdlength |-> rdlength, rdata |-> rdata]

\* DNSHeader.pack
HeaderFlags(h) ==
  BitOr(h.qr * 32768,
  BitOr(h.opcode * 2048,
  BitOr(h.aa * 1024,
  BitOr(h.tc * 512,
  BitOr(h.rd * 256,
  BitOr(h.ra * 128,
  BitOr(h.z * 16, h.rcode)))))))

PackHeaderFields(h, flags) ==
  IF InU16(h.id) /\ InU16(flags) /\ InU16(h.qdcount) /\ InU16(h.ancount)
     /\ InU16(h.nscount) /\ InU16(h.arcount)
  THEN Ok(U16(h.id) \o U16(flags) \o U16(h.qdcount) \o U16(h.ancount)
          \o U16(h.nscount) \o U16(h.arcount))
  ELSE Err("struct.error")

DNSHeader_pack(h) == PackHeaderFields(h, HeaderFlags(h))

\* DNSHeader.from_buffer
UnpackHeaderFields(b, flags) ==
  DNSHeader(FromU16(SubSeq(b, 1, 2)),
            (flags \div 32768) % 2,
            (flags \div 2048) % 16,
            (flags \div 1024) % 2,
            (flags \div 512) % 2,
            (flags \div 256) % 2,
            (flags \div 128) % 2,
            (flags \div 16) % 8,
            flags % 16,
            FromU16(SubSeq(b, 5, 6)),
            FromU16(SubSeq(b, 7, 8)),
            FromU16(SubSeq(b, 9, 10)),
            FromU16(SubSeq(b, 11, 12)))

DNSHeader_from_buffer(buf) ==
  IF Len(Slice(buf, 0, 12)) # 12 THEN Err("struct.error")
  ELSE Ok(UnpackHeaderFields(buf, FromU16(SubSeq(buf, 3, 4))))

\* DNSQuestion.pack(encoded_name)
DNSQuestion_pack(q, encoded_name) ==
  IF InU16(q.type_) /\ InU16(q.class_)
  THEN Ok(encoded_name \o U16(q.type_) \o U16(q.class_))
  ELSE Err("struct.error")

\* DNSAnswer.pack(encoded_name): rdata is appended as it is, whatever rdlength says.
DNSAnswer_pack(a, encoded_name) ==
  IF InU16(a.type_) /\ InU16(a.class_) /\ InU32(a.ttl) /\ InU16(a.rdlength)
  THEN Ok(encoded_name \o U16(a.type_) \o U16(a.class_) \o U32(a.ttl)
          \o U16(a.rdlength) \o a.rdata)
  ELSE Err("struct.error")

\* pack_all_uncompressed
RECURSIVE PackQuestionsPlain(_, _)
PackQuestionsPlain(questions, response) ==
  IF Len(questions) = 0 THEN Ok(response)
  ELSE Try(encode_name_uncompressed(questions[1].decoded_name), LAMBDA n :
       Try(DNSQuestion_pack(questions[1], n), LAMBDA p :
       PackQuestionsPlain(Tail(questions), response \o p)))

RECURSIVE PackAnswersPlain(_, _)
PackAnswersPlain(answers, response) ==
  IF Len(answers) = 0 THEN Ok(response)
  ELSE Try(encode_name_uncompressed(answers[1].decoded_name), LAMBDA n :
       Try(DNSAnswer_pack(answers[1], n), LAMBDA p :
       PackAnswersPlain(Tail(answers), response \o p)))

pack_all_uncompressed(header, questions, answers) ==
  Try(DNSHeader_pack(header), LAMBDA h :
  Try(PackQuestionsPlain(questions, h), LAMBDA q :
  PackAnswersPlain(answers, q)))

\* pack_all_compressed.  st is [response, map]: the bytes written so far and
\* name_offset_map, the offset each name was first written at.
\* struct.pack("!H", 0xC000 | offset) raises for an offset above 65535.
EncodeNameCompressed(name, st) ==
  IF name \in DOMAIN st.map
  THEN IF InU16(BitOr(49152, st.map[name]))
       THEN Ok([bytes |-> U16(BitOr(49152, st.map[name])), map |-> st.map])
       ELSE Err("struct.error")
  ELSE Try(encode_name_uncompressed(name), LAMBDA n :
       Ok([bytes |-> n,
           map |-> [k \in DOMAIN st.map \cup {name} |->
                      IF k = name THEN Len(st.response) ELSE st.map[k]]]))

RECURSIVE PackQuestionsCompressed(_, _)
PackQuestionsCompressed(questions, st) ==
  IF Len(questions) = 0 THEN Ok(st)
  ELSE Try(EncodeNameCompressed(questions[1].decoded_name, st), LAMBDA n :
       Try(DNSQuestion_pack(questions[1], n.bytes), LAMBDA p :
       With([response |-> st.response \o p, map |-> n.map], LAMBDA next :
       PackQuestionsCompressed(Tail(questions), next))))

RECURSIVE PackAnswersCompressed(_, _)
PackAnswersCompressed(answers, st) ==
  IF Len(answers) = 0 THEN Ok(st)
  ELSE Try(EncodeNameCompressed(answers[1].decoded_name, st), LAMBDA n :
       Try(DNSAnswer_pack(answers[1], n.bytes), LAMBDA p :
       With([response |-> st.response \o p, map |-> n.map], LAMBDA next :
       PackAnswersCompressed(Tail(answers), next))))

pack_all_compressed(header, questions, answers) ==
  Try(DNSHeader_pack(header), LAMBDA h :
  Try(PackQuestionsCompressed(questions, [response |-> h, map |-> [k \in {} |-> 0]]),
      LAMBDA q :
  Try(PackAnswersCompressed(answers, q), LAMBDA a : Ok(a.response))))

\* unpack_all.  The result is the tuple the source returns: (header, questions)
\* when header.ancount is 0 and (header, questions, answers) otherwise.
\* struct.unpack raises when a slice is shorter than its format; the rdata
\* slice is taken as it comes.
UnpackQuestion(buf, n) ==
  IF Len(Slice(buf, n[2], n[2] + 4)) # 4 THEN Err("struct.error")
  ELSE Ok([idx |-> n[2] + 4,
           item |-> DNSQuestion(n[1], FromU16(Slice(buf, n[2], n[2] + 2)),
                                FromU16(Slice(buf, n[2] + 2, n[2] + 4)))])

RECURSIVE UnpackQuestions(_, _, _, _)
UnpackQuestions(buf, idx, count, questions) ==
  IF count = 0 THEN Ok([idx |-> idx, list |-> questions])
  ELSE Try(decode_name(buf, idx), LAMBDA n :
       Try(UnpackQuestion(buf, n), LAMBDA q :
       UnpackQuestions(buf, q.idx, count - 1, Append(questions, q.item))))

UnpackAnswerData(buf, n, rdlength) ==
  Ok([idx |-> n[2] + 10 + rdlength,
      item |-> DNSAnswer(n[1], FromU16(Slice(buf, n[2], n[2] + 2)),
                         FromU16(Slice(buf, n[2] + 2, n[2] + 4)),
                         FromU32(Slice(buf, n[2] + 4, n[2] + 8)),
                         rdlength,
                         Slice(buf, n[2] + 10, n[2] + 10 + rdlength))])

UnpackAnswer(buf, n) ==
  IF Len(Slice(buf, n[2], n[2] + 10)) # 10 THEN Err("struct.error")
  ELSE UnpackAnswerData(buf, n, FromU16(Slice(buf, n[2] + 8, n[2] + 10)))

RECURSIVE UnpackAnswers(_, _, _, _)
UnpackAnswers(buf, idx, count, answers) ==
  IF count = 0 THEN Ok([idx |-> idx, list |-> answers])
  ELSE Try(decode_name(buf, idx), LAMBDA n :
       Try(UnpackAnswer(buf, n), LAMBDA a :
       UnpackAnswers(buf, a.idx, count - 1, Append(answers, a.item))))

unpack_all(buf) ==
  Try(DNSHeader_from_buffer(buf), LAMBDA header :
  Try(UnpackQuestions(buf, 12, header.qdcount, <<>>), LAMBDA q :
  Try(UnpackAnswers(buf, q.idx, header.ancount, <<>>), LAMBDA a :
  IF header.ancount = 0 THEN Ok(<<header, q.list>>)
  ELSE Ok(<<header, q.list, a.list>>))))

\* fnmatch.fnmatch(name, pat) on POSIX (no case folding) for patterns made of
\* literal characters, * and ?; the blocklist below has no [...] class.
Star == 42
QMark == 63

RECURSIVE fnmatch(_, _)
fnmatch(name, pat) ==
  IF Len(pat) = 0 THEN Len(name) = 0
  ELSE IF pat[1] = Star
    THEN \E k \in 0..Len(name) : fnmatch(SubSeq(name, k + 1, Len(name)), Tail(pat))
  ELSE IF Len(name) = 0 THEN FALSE
  ELSE IF pat[1] = QMark THEN fnmatch(Tail(name), Tail(pat))
  ELSE name[1] = pat[1] /\ fnmatch(Tail(name), Tail(pat))

\* socket.inet_aton(ip) for a dotted quad of decimal numbers: its four bytes.
RECURSIVE Decimal(_, _)
Decimal(digits, acc) ==
  IF Len(digits) = 0 THEN acc
  ELSE Decimal(Tail(digits), acc * 10 + (digits[1] - 48))

inet_aton(ip) ==
  LET parts == split(ip)
      IsNumber(p) == Len(p) > 0 /\ Len(p) <= 3 /\ \A k \in 1..Len(p) : p[k] \in 48..57
  IN  IF Len(parts) = 4 /\ \A k \in 1..4 : IsNumber(parts[k]) /\ Decimal(parts[k], 0) <= 255
      THEN Ok([k \in 1..4 |-> Decimal(parts[k], 0)])
      ELSE Err("OSError")

-----------------------------------------------------------------------------
(***************************************************************************)
(* Bounds of the model and the configuration of the server.                *)
(***************************************************************************)
\* Datagrams the clients send in a run, and questions in one query, in
\* sequential mode.
MaxRequests == 2
MaxQuestions == 3
\* The same in threaded mode.
MaxRequestsThreaded == 3
MaxQuestionsThreaded == 1
\* time.time() returns a whole number of seconds from 0 to MaxTime.
MaxTime == 2
\* The upstream resolver answers with a ttl in 0..MaxTTL.
MaxTTL == 2
\* Worker threads of the pool (the source's pool has max_workers = 10).
MaxWorkers == 2

\* ServerManager.__init__: the blocklist "b*", the redirect address
\* "10.0.0.1" and the default ttl of a blocked answer.
blocklist == {<<98, Star>>}
redirect_ip == <<49, 48, 46, 48, 46, 48, 46, 49>>
default_blocking_ttl == 60

\* The thread of start / start_threaded, and the pool's workers.
Main == 0
Workers == 1..MaxWorkers
Threads == {Main} \cup Workers

\* Python's None.
None == [none |-> TRUE]

\* No function has been called directly.
NoCall == [op |-> ""]

VARIABLES
  data,             \* TimedCache.data: question -> [value, expiry]
  now,              \* the last value time.time() returned
  sock_open,        \* self.sock is open
  resolver_open,    \* self.resolver_socket is open
  th,               \* per thread: the place in the code and the locals
  resolver_sent,    \* datagrams sent to the resolver, not yet answered
  resolver_rcvbuf,  \* datagrams waiting in resolver_socket's receive buffer
  lock,             \* the holder of start_threaded's lock, 0 when free
  tasks,            \* the executor's work queue
  received,         \* datagrams received from clients so far
  answered,         \* client addresses a response was sent to
  error,            \* the kind of the last exception a request ended with
  call              \* the last direct call of a function or method, and its result

vars == <<data, now, sock_open, resolver_open, th, resolver_sent,
          resolver_rcvbuf, lock, tasks, received, answered, error, call>>

\* The locals of handle_dns_query and of its caller, before anything is
\* assigned.  send and response are the forwarded query and the resolver's
\* reply (lines 536-537); returned is what handle_dns_query returns, the
\* caller's response (lines 631 and 662).  Where nothing is forwarded the
\* source binds recv_header and recv_questions to the objects new_header and
\* new_questions name (lines 548-551); neither name is read afterwards, so
\* they are kept apart here.
Locals0 ==
  [pc |-> "idle", in_get |-> "", exc |-> "", addr |-> 0, buf |-> <<>>,
   header |-> None, questions |-> <<>>, new_header |-> None,
   new_questions |-> <<>>, question_index_blocked |-> <<>>,
   question_index_cached |-> <<>>, idx |-> 0, recv_header |-> None,
   send |-> <<>>, response |-> <<>>, recv_questions |-> <<>>,
   recv_answers |-> <<>>, returned |-> <<>>]

Raise(l, kind) == [l EXCEPT !.exc = kind]

\* self.data[key] = (value, expiry) and del self.data[key]
DataSet(d, key, value, expiry) ==
  [k \in DOMAIN d \cup {key} |->
     IF k = key THEN [value |-> value, expiry |-> expiry] ELSE d[k]]
DataDel(d, key) == [k \in DOMAIN d \ {key} |-> d[k]]

\* The three loops of handle_dns_query that call TimedCache.get: where each
\* goes when it has (or has no) element left.  idx counts the elements done.
EnterClassify(l) ==
  IF l.idx < Len(l.questions)
  THEN [l EXCEPT !.pc = "classify", !.in_get = "contains"]
  ELSE [l EXCEPT !.pc = "forward", !.in_get = "", !.idx = 0]

EnterSplice(l) ==
  IF l.idx < Len(l.question_index_cached)
  THEN [l EXCEPT !.pc = "splice", !.in_get = "contains"]
  ELSE [l EXCEPT !.pc = "blocked", !.in_get = "", !.idx = 0]

\* zip(questions, recv_answers) stops at the shorter list.
EnterUpdate(l) ==
  IF l.idx < Min(Len(l.questions), Len(l.recv_answers))
  THEN [l EXCEPT !.pc = "update", !.in_get = "contains"]
  ELSE [l EXCEPT !.pc = "pack", !.in_get = "", !.idx = 0]

\* The key of the TimedCache.get call in progress.
Key(l) ==
  IF l.pc = "splice" THEN l.questions[l.question_index_cached[l.idx + 1] + 1]
  ELSE l.questions[l.idx + 1]

\* ClassifyQuestion as it would be with the blocklist consulted first.
ClassifyQuestion_BlocklistFirst(l, found) ==
  LET question == l.questions[l.idx + 1]
  IN  IF \E loc \in blocklist : fnmatch(question.decoded_name, loc)
      THEN [l EXCEPT !.question_index_blocked = Append(@, l.idx)]
      ELSE IF found
      THEN [l EXCEPT !.question_index_cached = Append(@, l.idx)]
      ELSE [l EXCEPT !.new_questions = Append(@, question)]

\* Lines 516-524: one question classified, found being `question in self.cache`.
ClassifyQuestion(l, found) ==
  LET question == l.questions[l.idx + 1]
  IN  IF found
      THEN [l EXCEPT !.question_index_cached = Append(@, l.idx)]
      ELSE IF \E loc \in blocklist : fnmatch(question.decoded_name, loc)
      THEN [l EXCEPT !.question_index_blocked = Append(@, l.idx)]
      ELSE [l EXCEPT !.new_questions = Append(@, question)]

\* Lines 563-565: one cached question and what get returned put back.
SpliceCached(l, value) ==
  LET i == l.question_index_cached[l.idx + 1]
  IN  [l EXCEPT !.recv_questions = Insert(@, i, l.questions[i + 1]),
                !.recv_answers = Insert(@, i, value)]

\* GetReturn as it would be with line 597 left out: every pair is cached.
GetReturn_Overwrites(l, value) ==
  IF l.pc = "classify"
  THEN EnterClassify([ClassifyQuestion(l, value # None) EXCEPT !.idx = @ + 1])
  ELSE IF l.pc = "splice"
  THEN EnterSplice([SpliceCached(l, value) EXCEPT !.idx = @ + 1])
  ELSE IF l.recv_answers[l.idx + 1] = None THEN Raise(l, "AttributeError")
  ELSE [l EXCEPT !.in_get = "set"]

\* TimedCache.get returns value (None when absent or expired) to the loop
\* that called it; the loop goes on to its next element.
GetReturn(l, value) ==
  IF l.pc = "classify"
  THEN EnterClassify([ClassifyQuestion(l, value # None) EXCEPT !.idx = @ + 1])
  ELSE IF l.pc = "splice"
  THEN EnterSplice([SpliceCached(l, value) EXCEPT !.idx = @ + 1])
  ELSE \* lines 598-599: cache_answer.ttl is read before set is called
       IF value # None THEN EnterUpdate([l EXCEPT !.idx = @ + 1])
       ELSE IF l.recv_answers[l.idx + 1] = None THEN Raise(l, "AttributeError")
       ELSE [l EXCEPT !.in_get = "set"]

\* ClearRecursion as it would be with the cached questions forgotten.
ClearRecursion_BlockedOnly(l) ==
  IF Len(l.question_index_blocked) > 0
  THEN [l EXCEPT !.recv_header.rd = 0, !.recv_header.ra = 0]
  ELSE l

\* Lines 557-559.
ClearRecursion(l) ==
  IF Len(l.question_index_cached) > 0 \/ Len(l.question_index_blocked) > 0
  THEN [l EXCEPT !.recv_header.rd = 0, !.recv_header.ra = 0]
  ELSE l

\* BlockedAnswer as it would be with the class taken from the question's class.
BlockedAnswer_QuestionClass(question) ==
  Try(inet_aton(redirect_ip), LAMBDA rdata :
  Ok(DNSAnswer(question.decoded_name, question.type_, question.class_,
               default_blocking_ttl, 4, rdata)))

\* Lines 572-580: the answer made up for a blocked question.
BlockedAnswer(question) ==
  Try(inet_aton(redirect_ip), LAMBDA rdata :
  Ok(DNSAnswer(question.decoded_name, question.type_, question.type_,
               default_blocking_ttl, 4, rdata)))

\* Lines 569-584: the blocked questions and their synthesized answers put back.
InsertBlocked(l, i, answer) ==
  IF ~answer.ok THEN Raise(l, answer.exc)
  ELSE [l EXCEPT !.recv_questions = Insert(@, i, l.questions[i + 1]),
                 !.recv_answers = Insert(@, i, answer.v)]

RECURSIVE SpliceBlocked(_, _)
SpliceBlocked(l, k) ==
  IF k > Len(l.question_index_blocked) \/ l.exc # "" THEN l
  ELSE SpliceBlocked(
         InsertBlocked(l, l.question_index_blocked[k],
                       BlockedAnswer(l.questions[l.question_index_blocked[k] + 1])),
         k + 1)

\* UpdateCounts as it would be with line 588 left out.
UpdateCounts_QuestionsOnly(l) ==
  [l EXCEPT !.recv_header.qdcount = Len(l.recv_questions)]

\* Lines 587-588.
UpdateCounts(l) ==
  [l EXCEPT !.recv_header.qdcount = Len(l.recv_questions),
            !.recv_header.ancount = Len(l.recv_answers)]

-----------------------------------------------------------------------------
(***************************************************************************)
(* The environment: the clients' datagrams and the upstream resolver.      *)
(***************************************************************************)
QuestionA == DNSQuestion(<<97>>, 1, 1)
QuestionB == DNSQuestion(<<98>>, 28, 1)
QuestionC == DNSQuestion(<<99>>, 1, 1)
QuestionPool == {QuestionA, QuestionB, QuestionC}

QueryId(k) == 6352 + k

ClientHeader(k, qdcount, ancount) ==
  DNSHeader(QueryId(k), 0, 0, 0, 0, 1, 0, 0, 0, qdcount, ancount, 0, 0)

QuestionPoolThreaded == {QuestionA, QuestionB}

QuestionLists(m, pool) == UNION {[1..n -> pool] : n \in 0..m}

\* A well-formed query for each list of at most m questions.
Queries(k, m, pool) ==
  {pack_all_uncompressed(ClientHeader(k, Len(qs), 0), qs, <<>>).v : qs \in QuestionLists(m, pool)}

\* A query that also carries an answer record.
QueryWithAnswer(k) ==
  pack_all_uncompressed(ClientHeader(k, 1, 1), <<QuestionA>>,
    <<DNSAnswer(<<97>>, 1, 1, 0, 4, <<10, 0, 0, 97>>)>>).v

\* A datagram cut off in its question section.
QueryTruncated(k) ==
  Slice(pack_all_uncompressed(ClientHeader(k, 1, 0), <<QuestionA>>, <<>>).v, 0, 13)

Datagrams(k) ==
  Queries(k, MaxQuestions, QuestionPool) \cup {QueryWithAnswer(k), QueryTruncated(k)}

DatagramsThreaded(k) ==
  Queries(k, MaxQuestionsThreaded, QuestionPoolThreaded) \cup {QueryTruncated(k)}

\* The resolver's answers to a question: one record, or two.
UpstreamAnswer(q, ttl, n) ==
  DNSAnswer(q.decoded_name, q.type_, q.class_, ttl, 4, <<10, 0, n, q.decoded_name[1]>>)

RECURSIVE UpstreamAnswers(_, _, _)
UpstreamAnswers(questions, ttl, several) ==
  IF Len(questions) = 0 THEN <<>>
  ELSE (IF several
        THEN <<UpstreamAnswer(questions[1], ttl, 0), UpstreamAnswer(questions[1], ttl, 1)>>
        ELSE <<UpstreamAnswer(questions[1], ttl, 0)>>)
       \o UpstreamAnswers(Tail(questions), ttl, FALSE)

\* What the resolver may send back: one answer per question, no answer,
\* two answers for the first question, or a datagram cut after its header.
ReplyShapes ==
  {<<"one", ttl>> : ttl \in 0..MaxTTL} \cup {<<"none", 0>>, <<"several", MaxTTL>>, <<"truncated", 0>>}

UpstreamMessage(h, questions, answers, shape) ==
  Try(pack_all_compressed(
        DNSHeader(h.id, 1, h.opcode, 0, 0, h.rd, 1, 0, 0,
                  Len(questions), Len(answers), 0, 0),
        questions, answers),
      LAMBDA reply : Ok(IF shape[1] = "truncated" THEN Slice(reply, 0, 12) ELSE reply))

UpstreamReply(query, shape) ==
  Try(unpack_all(query), LAMBDA u :
  UpstreamMessage(u[1], u[2],
                  IF shape[1] = "none" THEN <<>>
                  ELSE UpstreamAnswers(u[2], shape[2], shape[1] = "several"),
                  shape)).v

-----------------------------------------------------------------------------
(***************************************************************************)
(* The threads.                                                            *)
(***************************************************************************)
Init ==
  /\ data = [k \in {} |-> None]
  /\ now = 0
  /\ sock_open = TRUE
  /\ resolver_open = TRUE
  /\ th = [t \in Threads |-> IF t = Main THEN [Locals0 EXCEPT !.pc = "recvfrom"] ELSE Locals0]
  /\ resolver_sent = <<>>
  /\ resolver_rcvbuf = <<>>
  /\ lock = 0
  /\ tasks = <<>>
  /\ received = 0
  /\ answered = {}
  /\ error = ""
  /\ call = NoCall

\* An exception leaves handle_dns_query.  In start (lines 665-667) the except
\* clause calls done(), which closes both sockets, and the loop goes on.  In a
\* worker the exception ends the task: the executor keeps it in the task's
\* future and the thread goes back to the pool.
Except(t, kind) ==
  /\ error' = kind
  /\ IF t = Main
     THEN /\ th' = [th EXCEPT ![t] = [Locals0 EXCEPT !.pc = "recvfrom"]]
          /\ sock_open' = FALSE
          /\ resolver_open' = FALSE
     ELSE /\ th' = [th EXCEPT ![t] = Locals0]
          /\ UNCHANGED <<sock_open, resolver_open>>

\* A step of thread t ends with the locals l, l.exc naming what it raised.
Finished(t, l) ==
  IF l.exc # "" THEN Except(t, l.exc)
  ELSE /\ th' = [th EXCEPT ![t] = l]
       /\ UNCHANGED <<sock_open, resolver_open, error>>

\* The locals are worked out once.
Finish(t, locals) == \E l \in {locals} : Finished(t, l)

\* start, line 661: recvfrom on the listening socket.
start_recvfrom ==
  /\ th[Main].pc = "recvfrom"
  /\ sock_open
  /\ received < MaxRequests
  /\ \E buf \in Datagrams(received + 1) :
       th' = [th EXCEPT ![Main] = [Locals0 EXCEPT !.pc = "unpack", !.buf = buf,
                                                  !.addr = received + 1]]
  /\ received' = received + 1
  /\ UNCHANGED <<call, data, now, sock_open, resolver_open, resolver_sent,
                 resolver_rcvbuf, lock, tasks, answered, error>>

\* start, lines 661 and 665-667 once the sockets are closed: recvfrom raises
\* OSError, done() is called again and the loop goes round.
start_recvfrom_closed ==
  /\ th[Main].pc = "recvfrom"
  /\ ~sock_open
  /\ error' = "OSError"
  /\ UNCHANGED <<call, data, now, sock_open, resolver_open, th, resolver_sent,
                 resolver_rcvbuf, lock, tasks, received, answered>>

\* start, line 663: the response goes to the client.
start_sendto ==
  /\ th[Main].pc = "return"
  /\ IF sock_open
     THEN /\ answered' = answered \cup {th[Main].addr}
          /\ th' = [th EXCEPT ![Main] = [Locals0 EXCEPT !.pc = "recvfrom"]]
          /\ UNCHANGED <<sock_open, resolver_open, error>>
     ELSE /\ Except(Main, "OSError")
          /\ UNCHANGED answered
  /\ UNCHANGED <<call, data, now, resolver_sent, resolver_rcvbuf, lock, tasks, received>>

\* start_threaded, lines 648-650: recvfrom, then the task is submitted.
start_threaded_recvfrom ==
  /\ th[Main].pc = "recvfrom"
  /\ sock_open
  /\ received < MaxRequestsThreaded
  /\ \E buf \in DatagramsThreaded(received + 1) :
       tasks' = Append(tasks, [addr |-> received + 1, buf |-> buf])
  /\ received' = received + 1
  /\ UNCHANGED <<call, data, now, sock_open, resolver_open, th, resolver_sent,
                 resolver_rcvbuf, lock, answered, error>>

\* An idle worker of the pool takes the next task: threaded_handle_dns_query.
worker_run(t) ==
  /\ th[t].pc = "idle"
  /\ Len(tasks) > 0
  /\ th' = [th EXCEPT ![t] = [Locals0 EXCEPT !.pc = "unpack", !.buf = Head(tasks).buf,
                                            !.addr = Head(tasks).addr]]
  /\ tasks' = Tail(tasks)
  /\ UNCHANGED <<call, data, now, sock_open, resolver_open, resolver_sent,
                 resolver_rcvbuf, lock, received, answered, error>>

\* handle_dns_query, lines 501-511.  The tuple unpack_all returns is bound to
\* two names: a tuple of three raises ValueError.
Unpacked(l, r) ==
  IF ~r.ok THEN Raise(l, r.exc)
  ELSE IF Len(r.v) # 2 THEN Raise(l, "ValueError")
  ELSE EnterClassify([l EXCEPT !.header = r.v[1], !.questions = r.v[2],
                               !.new_header = r.v[1], !.idx = 0])

unpack(t) ==
  /\ th[t].pc = "unpack"
  /\ Finish(t, Unpacked(th[t], unpack_all(th[t].buf)))
  /\ UNCHANGED <<call, data, now, resolver_sent, resolver_rcvbuf, lock, tasks,
                 received, answered>>

InGet(l, at) == l.pc \in {"classify", "splice", "update"} /\ l.in_get = at

\* TimedCache.get, lines 53-54.
get_contains(t) ==
  /\ InGet(th[t], "contains")
  /\ LET l == th[t]
     IN  Finish(t, IF Key(l) \notin DOMAIN data THEN GetReturn(l, None)
                   ELSE [l EXCEPT !.in_get = "read"])
  /\ UNCHANGED <<call, data, now, resolver_sent, resolver_rcvbuf, lock, tasks,
                 received, answered>>

\* The values the next call of time.time() may return.
Clock == now..MaxTime

\* TimedCache.get, lines 56-57 and 61.  Line 57 reads the clock.
get_read(t) ==
  /\ InGet(th[t], "read")
  /\ \E time \in Clock :
       /\ now' = time
       /\ LET l == th[t]
          IN  Finish(t, IF Key(l) \notin DOMAIN data THEN Raise(l, "KeyError")
                        ELSE IF data[Key(l)].expiry < time THEN [l EXCEPT !.in_get = "del"]
                        ELSE GetReturn(l, data[Key(l)].value))
  /\ UNCHANGED <<call, data, resolver_sent, resolver_rcvbuf, lock, tasks, received, answered>>

\* TimedCache.get, lines 59-60.
get_del(t) ==
  /\ InGet(th[t], "del")
  /\ LET l == th[t]
     IN  IF Key(l) \notin DOMAIN data
         THEN Finish(t, Raise(l, "KeyError")) /\ UNCHANGED data
         ELSE Finish(t, GetReturn(l, None)) /\ data' = DataDel(data, Key(l))
  /\ UNCHANGED <<call, now, resolver_sent, resolver_rcvbuf, lock, tasks, received, answered>>

\* TimedCache.set, line 43, called at line 599.  Line 43 reads the clock.
update_set(t) ==
  /\ InGet(th[t], "set")
  /\ \E time \in Clock :
       /\ now' = time
       /\ LET l == th[t]
              cache_answer == l.recv_answers[l.idx + 1]
          IN  /\ data' = DataSet(data, Key(l), cache_answer, time + cache_answer.ttl)
              /\ Finish(t, EnterUpdate([l EXCEPT !.idx = @ + 1]))
  /\ UNCHANGED <<call, resolver_sent, resolver_rcvbuf, lock, tasks, received, answered>>

\* Lines 548-552 and 557-559: nothing is forwarded.
NothingForwarded(l) ==
  EnterSplice(ClearRecursion([l EXCEPT !.recv_header = [l.new_header EXCEPT !.qr = 1],
                                       !.recv_questions = l.new_questions,
                                       !.recv_answers = <<>>]))

\* Lines 536-537 and 615: the query is packed and sent.
Forwarded(t, l, send) ==
  IF ~send.ok
  THEN Finish(t, Raise(l, send.exc)) /\ UNCHANGED resolver_sent
  ELSE IF ~resolver_open
  THEN Finish(t, Raise(l, "OSError")) /\ UNCHANGED resolver_sent
  ELSE /\ resolver_sent' = Append(resolver_sent, send.v)
       /\ Finish(t, [l EXCEPT !.pc = "forward_recv", !.send = send.v])

\* Line 528.
SetForwardCount(l) == [l EXCEPT !.new_header.qdcount = Len(l.new_questions)]

\* forward as it would be with the query sent upstream whatever is left in it.
forward_Always(t) ==
  /\ th[t].pc = "forward"
  /\ Forwarded(t, SetForwardCount(th[t]),
               pack_all_compressed(SetForwardCount(th[t]).new_header,
                                   th[t].new_questions, <<>>))
  /\ UNCHANGED <<call, data, now, resolver_rcvbuf, lock, tasks, received, answered>>

\* handle_dns_query, lines 528-537 and forward_dns_query's sendto (line 615)
\* when something is left to forward; lines 548-552 and 557-559 when nothing is.
forward(t) ==
  /\ th[t].pc = "forward"
  /\ IF Len(th[t].new_questions) > 0
     THEN Forwarded(t, SetForwardCount(th[t]),
                    pack_all_compressed(SetForwardCount(th[t]).new_header,
                                        th[t].new_questions, <<>>))
     ELSE Finish(t, NothingForwarded(SetForwardCount(th[t]))) /\ UNCHANGED resolver_sent
  /\ UNCHANGED <<call, data, now, resolver_rcvbuf, lock, tasks, received, answered>>

\* forward_dns_query, line 615: the network refuses the datagram and sendto
\* raises OSError.
forward_oserror(t) ==
  /\ th[t].pc = "forward"
  /\ Len(th[t].new_questions) > 0
  /\ Finish(t, Raise(th[t], "OSError"))
  /\ UNCHANGED <<call, data, now, resolver_sent, resolver_rcvbuf, lock, tasks,
                 received, answered>>

\* Lines 542-546 and 557-559: the resolver's reply unpacked.
Received(l, response, recv) ==
  IF ~recv.ok THEN Raise(l, recv.exc)
  ELSE EnterSplice(ClearRecursion(
         [l EXCEPT !.response = response,
                   !.recv_header = recv.v[1],
                   !.recv_questions = recv.v[2],
                   !.recv_answers = IF Len(recv.v) > 2 THEN recv.v[3] ELSE <<>>]))

\* forward_dns_query, line 617: recvfrom(512) takes the next datagram of the
\* resolver socket, whichever query it answers; then lines 542-546 and 557-559.
forward_recv(t) ==
  /\ th[t].pc = "forward_recv"
  /\ Len(resolver_rcvbuf) > 0
  /\ \E recv \in {unpack_all(Slice(Head(resolver_rcvbuf), 0, 512))} :
       Finish(t, Received(th[t], Slice(Head(resolver_rcvbuf), 0, 512), recv))
  /\ resolver_rcvbuf' = Tail(resolver_rcvbuf)
  /\ UNCHANGED <<call, data, now, resolver_sent, lock, tasks, received, answered>>

\* Lines 569-588 done: on to the cache update.
Spliced(l) == IF l.exc # "" THEN l ELSE EnterUpdate(UpdateCounts(l))

\* handle_dns_query, lines 569-588.
blocked(t) ==
  /\ th[t].pc = "blocked"
  /\ \E l \in {SpliceBlocked(th[t], 1)} : Finish(t, Spliced(l))
  /\ UNCHANGED <<call, data, now, resolver_sent, resolver_rcvbuf, lock, tasks,
                 received, answered>>

\* Line 602: the response is packed and returned.  An answer that is None has
\* no decoded_name.
Packed(l, r) ==
  IF ~r.ok THEN Raise(l, r.exc)
  ELSE [l EXCEPT !.pc = "return", !.returned = r.v]

PackResponse(l) ==
  IF \E k \in 1..Len(l.recv_answers) : l.recv_answers[k] = None
  THEN Err("AttributeError")
  ELSE pack_all_compressed(l.recv_header, l.recv_questions, l.recv_answers)

\* handle_dns_query, line 602.
pack(t) ==
  /\ th[t].pc = "pack"
  /\ \E r \in {PackResponse(th[t])} : Finish(t, Packed(th[t], r))
  /\ UNCHANGED <<call, data, now, resolver_sent, resolver_rcvbuf, lock, tasks,
                 received, answered>>

\* lock_acquire as it would be without the wait for the lock.
lock_acquire_NoWait(t) ==
  /\ th[t].pc = "return"
  /\ lock' = t
  /\ th' = [th EXCEPT ![t].pc = "sendto"]
  /\ UNCHANGED <<call, data, now, sock_open, resolver_open, resolver_sent,
                 resolver_rcvbuf, tasks, received, answered, error>>

\* threaded_handle_dns_query, line 632: the lock is taken.
lock_acquire(t) ==
  /\ th[t].pc = "return"
  /\ lock = 0
  /\ lock' = t
  /\ th' = [th EXCEPT ![t].pc = "sendto"]
  /\ UNCHANGED <<call, data, now, sock_open, resolver_open, resolver_sent,
                 resolver_rcvbuf, tasks, received, answered, error>>

\* threaded_handle_dns_query, line 633 and the end of the with block: the
\* response is sent and the lock released.
threaded_sendto(t) ==
  /\ th[t].pc = "sendto"
  /\ answered' = answered \cup {th[t].addr}
  /\ lock' = IF lock = t THEN 0 ELSE lock
  /\ th' = [th EXCEPT ![t] = Locals0]
  /\ UNCHANGED <<call, data, now, sock_open, resolver_open, resolver_sent,
                 resolver_rcvbuf, tasks, received, error>>

\* The resolver answers one of the queries it was sent.
upstream_reply ==
  /\ \E j \in 1..Len(resolver_sent) : \E shape \in ReplyShapes :
       /\ resolver_rcvbuf' = Append(resolver_rcvbuf, UpstreamReply(resolver_sent[j], shape))
       /\ resolver_sent' = SubSeq(resolver_sent, 1, j - 1)
                             \o SubSeq(resolver_sent, j + 1, Len(resolver_sent))
  /\ UNCHANGED <<call, data, now, sock_open, resolver_open, th, lock, tasks,
                 received, answered, error>>

\* handle_dns_query as thread t runs it.
handle_dns_query(t) ==
  \/ unpack(t)
  \/ get_contains(t)
  \/ get_read(t)
  \/ get_del(t)
  \/ forward(t)
  \/ forward_oserror(t)
  \/ forward_recv(t)
  \/ blocked(t)
  \/ update_set(t)
  \/ pack(t)

\* The server in sequential mode: ServerManager.start.
Next ==
  \/ start_recvfrom
  \/ start_recvfrom_closed
  \/ handle_dns_query(Main)
  \/ start_sendto
  \/ upstream_reply

Spec == Init /\ [][Next]_vars

\* The server in threaded mode: ServerManager.start_threaded.
NextThreaded ==
  \/ start_threaded_recvfrom
  \/ \E t \in Workers :
       \/ worker_run(t)
       \/ handle_dns_query(t)
       \/ lock_acquire(t)
       \/ threaded_sendto(t)
  \/ upstream_reply

SpecThreaded == Init /\ [][NextThreaded]_vars

\* Threaded mode with the scheduling of the threads: a worker that can take a
\* step (take a task from the queue, go on in handle_dns_query, take the free
\* lock, send) does take one in the end.  Nothing makes a client send a
\* datagram or the resolver answer: a recvfrom waits as long as it takes
\* (lines 617 and 648 set no timeout).
worker(t) ==
  \/ worker_run(t)
  \/ handle_dns_query(t)
  \/ lock_acquire(t)
  \/ threaded_sendto(t)

SpecThreadedFair == SpecThreaded /\ \A t \in Workers : WF_vars(worker(t))

\* The same with the clients sending a burst: a query for a, which is
\* forwarded unless a is cached, for each worker of the pool, and then
\* queries for b, which is blocked.  Its behaviours are behaviours of
\* SpecThreadedFair.
BurstQuery(k) ==
  pack_all_uncompressed(ClientHeader(k, 1, 0),
                        <<IF k <= MaxWorkers THEN QuestionA ELSE QuestionB>>, <<>>).v

start_threaded_recvfrom_burst ==
  /\ start_threaded_recvfrom
  /\ tasks'[Len(tasks')].buf = BurstQuery(received')

NextBurst ==
  \/ start_threaded_recvfrom_burst
  \/ \E t \in Workers : worker(t)
  \/ upstream_reply

SpecBurst == Init /\ [][NextBurst]_vars /\ \A t \in Workers : WF_vars(worker(t))

-----------------------------------------------------------------------------
(***************************************************************************)
(* TimedCache called directly, one call at a time, on any key, value, ttl  *)
(* and at any time: a method runs from its first line to its return.       *)
(***************************************************************************)
\* TimedCache_set as it would be if an entry already there were kept.
TimedCache_set_IfAbsent(d, key, value, ttl, time) ==
  IF key \in DOMAIN d THEN d ELSE DataSet(d, key, value, time + ttl)

\* TimedCache.set: the store after the call at the given time.
TimedCache_set(d, key, value, ttl, time) == DataSet(d, key, value, time + ttl)

\* TimedCache.get: the store after the call and what the call returns.
TimedCache_get(d, key, time) ==
  IF key \notin DOMAIN d THEN [data |-> d, ret |-> None]
  ELSE IF d[key].expiry < time THEN [data |-> DataDel(d, key), ret |-> None]
  ELSE [data |-> d, ret |-> d[key].value]

\* TimedCache_contains as it would be with a lookup of the dictionary.
TimedCache_contains_Raw(d, key, time) == [data |-> d, ret |-> key \in DOMAIN d]

\* TimedCache.__contains__
TimedCache_contains(d, key, time) ==
  [data |-> TimedCache_get(d, key, time).data,
   ret |-> TimedCache_get(d, key, time).ret # None]

\* The keys and values of the direct calls; call.before is the store as the
\* call found it.
CacheKeys == {QuestionA, QuestionC}
CacheValues == {UpstreamAnswer(QuestionA, 0, 0), None}

cache_set ==
  /\ \E key \in CacheKeys : \E value \in CacheValues : \E ttl \in 0..MaxTTL :
       \E time \in Clock :
         /\ now' = time
         /\ data' = TimedCache_set(data, key, value, ttl, time)
         /\ call' = [op |-> "set", key |-> key, value |-> value, ttl |-> ttl,
                     before |-> data]
  /\ UNCHANGED <<sock_open, resolver_open, th, resolver_sent, resolver_rcvbuf,
                 lock, tasks, received, answered, error>>

cache_get ==
  /\ \E key \in CacheKeys : \E time \in Clock :
       /\ now' = time
       /\ data' = TimedCache_get(data, key, time).data
       /\ call' = [op |-> "get", key |-> key, before |-> data,
                   ret |-> TimedCache_get(data, key, time).ret]
  /\ UNCHANGED <<sock_open, resolver_open, th, resolver_sent, resolver_rcvbuf,
                 lock, tasks, received, answered, error>>

cache_contains ==
  /\ \E key \in CacheKeys : \E time \in Clock :
       /\ now' = time
       /\ data' = TimedCache_contains(data, key, time).data
       /\ call' = [op |-> "contains", key |-> key, before |-> data,
                   ret |-> TimedCache_contains(data, key, time).ret]
  /\ UNCHANGED <<sock_open, resolver_open, th, resolver_sent, resolver_rcvbuf,
                 lock, tasks, received, answered, error>>

NextCache ==
  \/ cache_set
  \/ cache_get
  \/ cache_contains

SpecCache == Init /\ [][NextCache]_vars

-----------------------------------------------------------------------------
(***************************************************************************)
(* The codec called directly: encode_name_uncompressed, decode_name,       *)
(* unpack_all, and the two packers followed by unpack_all.  The functions  *)
(* keep nothing from one call to the next, so a behaviour is one call;     *)
(* call holds its arguments and its outcome.                               *)
(***************************************************************************)
\* Labels in a name given to encode_name_uncompressed, and records in a list
\* given to a packer.
MaxLabels == 2
MaxRecords == 2

\* A label of n bytes, all "a".
Label(n) == [k \in 1..n |-> 97]

\* The lengths around the limits: one byte, 63 and 64, the first length byte
\* that reads as a pointer (192), and 255 and 256 for bytes([n]).
LabelLengths == {1, 63, 64, 191, 192, 255, 256}

LabelLists == UNION {[1..k -> {Label(n) : n \in LabelLengths}] : k \in 1..MaxLabels}

\* The names encoded: one to MaxLabels labels, and a name that is not ASCII.
Names == {join(labels) : labels \in LabelLists} \cup {<<233>>}

\* Buffers and start offsets given to decode_name.  LoopingInputs are the
\* ones whose pointer chain comes back to an offset: a pointer to itself, two
\* pointers to each other, a label followed by a pointer to it, and a cycle of
\* three.
LoopingInputs ==
  {<<<<192, 0>>, 0>>,
   <<<<192, 2, 192, 0>>, 0>>,
   <<<<192, 2, 192, 0>>, 2>>,
   <<<<1, 97, 192, 0>>, 0>>,
   <<<<192, 2, 192, 4, 192, 0>>, 0>>,
   <<<<0, 1, 97, 192, 1>>, 1>>}

PlainInputs ==
  {<<<<1, 97, 1, 98, 0>>, 0>>,
   <<<<1, 97, 1, 98, 0>>, 2>>,
   <<<<1, 97, 0, 192, 0>>, 3>>,
   <<<<1, 97, 0, 1, 98, 192, 0>>, 3>>,
   <<<<192, 2, 0>>, 0>>,
   <<<<0>>, 0>>,
   <<<<5, 97>>, 0>>,
   <<<<192>>, 0>>,
   <<<<1, 233, 0>>, 0>>}

NameInputs == LoopingInputs \cup PlainInputs

\* Messages as they are on the wire, whole: a query, replies with one and two
\* answers packed with compression, and a reply packed without.
MessageParts ==
  {<<<<QuestionA>>, <<>>>>,
   <<<<QuestionA>>, <<UpstreamAnswer(QuestionA, 1, 0)>>>>,
   <<<<QuestionA, QuestionB>>,
     <<UpstreamAnswer(QuestionA, 1, 0), UpstreamAnswer(QuestionB, 1, 0)>>>>}

WholeMessages ==
  {pack_all_compressed(ClientHeader(1, Len(m[1]), Len(m[2])), m[1], m[2]).v :
     m \in MessageParts}
  \cup {pack_all_uncompressed(ClientHeader(1, Len(m[1]), Len(m[2])), m[1], m[2]).v :
          m \in MessageParts}

\* The offsets a compression pointer can name: 14 bits (line 138).
PointerSpace == 16384

\* Headers, questions and answers packed and unpacked again.  The fields are
\* at both ends of their ranges; the names have labels of 1 and of 63 bytes;
\* an answer may have no rdata; BigAnswers is a list in which a name is first
\* written beyond the offsets a pointer can name and then written again.
RoundTripHeaders(nq, na) ==
  {DNSHeader(0, 0, 0, 0, 0, 0, 0, 0, 0, nq, na, 0, 0),
   DNSHeader(65535, 1, 15, 1, 1, 1, 1, 7, 15, nq, na, 65535, 65535),
   DNSHeader(6353, 1, 0, 0, 0, 1, 1, 0, 3, nq, na, 0, 0),
   DNSHeader(6353, 0, 2, 0, 1, 0, 0, 5, 0, nq, na, 1, 0)}

QuestionLong == DNSQuestion(join(<<Label(1), Label(63)>>), 65535, 65535)

RoundTripQuestions == {QuestionA, QuestionB, QuestionLong}

RoundTripAnswers ==
  {UpstreamAnswer(QuestionA, 1, 0),
   DNSAnswer(QuestionB.decoded_name, 28, 1, 0, 0, <<>>),
   DNSAnswer(QuestionLong.decoded_name, 65535, 65535, 65535, 2, <<255, 0>>)}

BigAnswers ==
  <<DNSAnswer(QuestionA.decoded_name, 1, 1, 0, PointerSpace,
              [k \in 1..PointerSpace |-> 0]),
    UpstreamAnswer(QuestionB, 1, 0),
    UpstreamAnswer(QuestionB, 1, 1)>>

RecordLists(pool) == UNION {[1..k -> pool] : k \in 0..MaxRecords}

RoundTripInputs ==
  {<<q, a>> : q \in RecordLists(RoundTripQuestions), a \in RecordLists(RoundTripAnswers)}
  \cup {<<<<QuestionA>>, BigAnswers>>}

call_encode_name_uncompressed ==
  /\ call = NoCall
  /\ \E name \in Names :
       call' = [op |-> "encode_name_uncompressed", name |-> name,
                ret |-> encode_name_uncompressed(name)]
  /\ UNCHANGED <<data, now, sock_open, resolver_open, th, resolver_sent,
                 resolver_rcvbuf, lock, tasks, received, answered, error>>

call_decode_name ==
  /\ call = NoCall
  /\ \E input \in NameInputs :
       call' = [op |-> "decode_name", buf |-> input[1], start_idx |-> input[2],
                ret |-> decode_name(input[1], input[2])]
  /\ UNCHANGED <<data, now, sock_open, resolver_open, th, resolver_sent,
                 resolver_rcvbuf, lock, tasks, received, answered, error>>

\* unpack_all of a message and of each of its beginnings.
call_unpack_all ==
  /\ call = NoCall
  /\ \E whole \in WholeMessages : \E n \in 0..Len(whole) :
       call' = [op |-> "unpack_all", whole |-> whole, buf |-> Slice(whole, 0, n),
                ret |-> unpack_all(Slice(whole, 0, n))]
  /\ UNCHANGED <<data, now, sock_open, resolver_open, th, resolver_sent,
                 resolver_rcvbuf, lock, tasks, received, answered, error>>

Repacked(op, header, questions, answers, packed) ==
  [op |-> op, header |-> header, questions |-> questions, answers |-> answers,
   packed |-> packed, ret |-> Try(packed, LAMBDA buf : unpack_all(buf))]

call_pack_all_uncompressed ==
  /\ call = NoCall
  /\ \E input \in RoundTripInputs :
       \E header \in RoundTripHeaders(Len(input[1]), Len(input[2])) :
         call' = Repacked("pack_all_uncompressed", header, input[1], input[2],
                          pack_all_uncompressed(header, input[1], input[2]))
  /\ UNCHANGED <<data, now, sock_open, resolver_open, th, resolver_sent,
                 resolver_rcvbuf, lock, tasks, received, answered, error>>

call_pack_all_compressed ==
  /\ call = NoCall
  /\ \E input \in RoundTripInputs :
       \E header \in RoundTripHeaders(Len(input[1]), Len(input[2])) :
         call' = Repacked("pack_all_compressed", header, input[1], input[2],
                          pack_all_compressed(header, input[1], input[2]))
  /\ UNCHANGED <<data, now, sock_open, resolver_open, th, resolver_sent,
                 resolver_rcvbuf, lock, tasks, received, answered, error>>

NextCodec ==
  \/ call_encode_name_uncompressed
  \/ call_decode_name
  \/ call_unpack_all
  \/ call_pack_all_uncompressed
  \/ call_pack_all_compressed

SpecCodec == Init /\ [][NextCodec]_vars

-----------------------------------------------------------------------------
(***************************************************************************)
(* Properties.  handle_dns_query has returned in thread t when th[t].pc is *)
(* "return": its locals are still there, and returned is its result.       *)
(***************************************************************************)
Range(s) == {s[k] : k \in DOMAIN s}

Returned(l) == l.pc = "return"

\* The indices of the original questions classified forward.
ForwardIndices(l) ==
  {i \in 0..(Len(l.questions) - 1) :
     i \notin Range(l.question_index_cached) \cup Range(l.question_index_blocked)}

\* The answers of an unpacked message u: unpack_all leaves them out when
\* there are none.
AnswersOf(u) == IF Len(u) > 2 THEN u[3] ELSE <<>>

\* a is an answer record for the question q.
AnswerFor(a, q) == a.decoded_name = q.decoded_name /\ a.type_ = q.type_

\* The reply r (unpacked) echoes the forwarded questions fq in order with
\* exactly one answer for each.
EchoesOneEach(fq, r) ==
  /\ r.ok
  /\ r.v[2] = fq
  /\ Len(AnswersOf(r.v)) = Len(fq)
  /\ \A k \in 1..Len(fq) : AnswerFor(AnswersOf(r.v)[k], fq[k])

(***************************************************************************)
(* C1.  When the upstream reply echoes the forwarded questions in order    *)
(* with one answer each, the response has the questions of the query in    *)
(* their original order, and the answer at index i answers question i.     *)
(***************************************************************************)
\* The place of the forwarded question i among the forwarded questions.
Rank(l, i) == Cardinality({j \in ForwardIndices(l) : j <= i})

\* The answer the response owes to question i (counted from 0): the record
\* the cache holds for a cached question, the synthesized record for a
\* blocked one, the resolver's record for a forwarded one.
AnswerOwed(l, i, a) ==
  IF i \in Range(l.question_index_cached)
  THEN l.questions[i + 1] \in DOMAIN data => a = data[l.questions[i + 1]].value
  ELSE IF i \in Range(l.question_index_blocked)
  THEN a = BlockedAnswer(l.questions[i + 1]).v
  ELSE a = AnswersOf(unpack_all(l.response).v)[Rank(l, i)]

SameOrder(l, u) ==
  /\ u[2] = l.questions
  /\ Len(AnswersOf(u)) = Len(l.questions)
  /\ \A i \in 0..(Len(l.questions) - 1) : AnswerOwed(l, i, AnswersOf(u)[i + 1])

C1_OrderPreserved ==
  \A t \in Threads :
    (/\ Returned(th[t])
     /\ Len(th[t].new_questions) > 0
          => EchoesOneEach(th[t].new_questions, unpack_all(th[t].response)))
      => SameOrder(th[t], unpack_all(th[t].returned).v)

(***************************************************************************)
(* C2.  Each question is classified as exactly one of cached, blocked and  *)
(* forward: cached when the cache holds it unexpired, whether or not it    *)
(* matches the blocklist; otherwise blocked when it matches the blocklist; *)
(* otherwise forward.  The message sent upstream holds the questions       *)
(* classified forward, in their original order, and their number as        *)
(* qdcount.  (An entry read at the very second of its expiry is left to    *)
(* C12: here it may be classified either way.)                             *)
(***************************************************************************)
Matches(question) == \E loc \in blocklist : fnmatch(question.decoded_name, loc)

\* The questions classified forward, in their original order.
ForwardQuestions(l) ==
  [k \in 1..Cardinality(ForwardIndices(l)) |->
     l.questions[(CHOOSE i \in ForwardIndices(l) : Rank(l, i) = k) + 1]]

\* Thread t finishes the classification of a question in this step.
Classifies(t) ==
  /\ th[t].pc = "classify"
  /\ th'[t].pc \in {"classify", "forward"}
  /\ th'[t].pc = "classify" => th'[t].idx = th[t].idx + 1

\* What the step did with question i (counted from 0).
ClassifiedCached(t, i) ==
  /\ th'[t].question_index_cached = Append(th[t].question_index_cached, i)
  /\ th'[t].question_index_blocked = th[t].question_index_blocked
  /\ th'[t].new_questions = th[t].new_questions

ClassifiedBlocked(t, i) ==
  /\ th'[t].question_index_cached = th[t].question_index_cached
  /\ th'[t].question_index_blocked = Append(th[t].question_index_blocked, i)
  /\ th'[t].new_questions = th[t].new_questions

ClassifiedForward(t, i) ==
  /\ th'[t].question_index_cached = th[t].question_index_cached
  /\ th'[t].question_index_blocked = th[t].question_index_blocked
  /\ th'[t].new_questions = Append(th[t].new_questions, th[t].questions[i + 1])

\* The rule, for the question q at index i and the time of the step.
ClassifiedByRule(t, i, q, time) ==
  /\ (q \in DOMAIN data /\ data[q].expiry > time) => ClassifiedCached(t, i)
  /\ (q \notin DOMAIN data \/ data[q].expiry < time) =>
       IF Matches(q) THEN ClassifiedBlocked(t, i) ELSE ClassifiedForward(t, i)
  /\ ClassifiedCached(t, i) \/ ClassifiedBlocked(t, i) \/ ClassifiedForward(t, i)

\* Thread t sends the query upstream in this step.
Forwards(t) == th[t].pc = "forward" /\ th'[t].pc = "forward_recv"

\* The message m holds the questions the locals l classified forward.
ForwardedMessage(l, m) ==
  /\ m.ok
  /\ Len(m.v) = 2
  /\ m.v[2] = ForwardQuestions(l)
  /\ m.v[1].qdcount = Cardinality(ForwardIndices(l))
  /\ Range(l.question_index_cached) \cap Range(l.question_index_blocked) = {}
  /\ Cardinality(Range(l.question_index_cached)) = Len(l.question_index_cached)
  /\ Cardinality(Range(l.question_index_blocked)) = Len(l.question_index_blocked)

C2_Classification ==
  [][\A t \in Threads :
       /\ Classifies(t) =>
            ClassifiedByRule(t, th[t].idx, th[t].questions[th[t].idx + 1], now')
       /\ Forwards(t) =>
            /\ resolver_sent' = Append(resolver_sent, th'[t].send)
            /\ ForwardedMessage(th[t], unpack_all(th'[t].send))]_vars

\* A query is sent upstream whose first question matches the blocklist and
\* was classified cached, and whose second question is forwarded.
C2_Witness ==
  \E t \in Threads :
    /\ th[t].pc = "forward_recv"
    /\ th[t].send # <<>>
    /\ Len(th[t].questions) > 1
    /\ Matches(th[t].questions[1])
    /\ 0 \in Range(th[t].question_index_cached)
    /\ 1 \in ForwardIndices(th[t])

(***************************************************************************)
(* C3.  A datagram is sent upstream if and only if some question is        *)
(* neither cached nor blocked.  When there is none, nothing is sent to or  *)
(* received from the resolver, and the header of the response is the       *)
(* header of the query with qr = 1: id, opcode and rcode are the query's.  *)
(***************************************************************************)
\* Thread t goes past line 533 in this step.
Decides(t) == th[t].pc = "forward" /\ th'[t].pc # "forward"

\* The step ended the request of thread t with an exception.
Raised(t) == th'[t].pc \in {"recvfrom", "idle"}

\* The header h answers the query header q.
AnswersHeader(h, q) ==
  /\ h.ok
  /\ h.v.qr = 1
  /\ h.v.id = q.id
  /\ h.v.opcode = q.opcode
  /\ h.v.rcode = q.rcode

SameRecursion(h, g) == h.ok /\ g.ok /\ h.v.rd = g.v.rd /\ h.v.ra = g.v.ra

NoRecursion(h) == h.ok /\ h.v.rd = 0 /\ h.v.ra = 0

RecordsEnd(buf, nq, na) ==
  Try(UnpackQuestions(buf, 12, nq, <<>>), LAMBDA q :
  Try(UnpackAnswers(buf, q.idx, na, <<>>), LAMBDA a : Ok(a.idx)))

CountsAre(h, nq, na) == h.ok /\ h.v.qdcount = nq /\ h.v.ancount = na

\* buf is a header that counts nq questions and na answers, followed by
\* exactly that many records.
HoldsExactly(buf, nq, na) ==
  /\ CountsAre(DNSHeader_from_buffer(buf), nq, na)
  /\ RecordsEnd(buf, nq, na) = Ok(Len(buf))

C5_Counts ==
  \A t \in Threads :
    /\ th[t].send # <<>> =>
         HoldsExactly(th[t].send, Cardinality(ForwardIndices(th[t])), 0)
    /\ Returned(th[t]) =>
         HoldsExactly(th[t].returned, Len(th[t].recv_questions), Len(th[t].recv_answers))

\* A response built from an upstream reply with two answers to one question,
\* and with a blocked question put back.
C5_Witness ==
  \E t \in Threads :
    /\ Returned(th[t])
    /\ th[t].send # <<>>
    /\ Len(th[t].question_index_blocked) > 0
    /\ Len(th[t].recv_answers) > Len(th[t].recv_questions)

(***************************************************************************)
(* C6.  A query that carries answer records is decoded and routed like any *)
(* other query: handle_dns_query goes on to classify its questions and     *)
(* does not fail on it.                                                    *)
(***************************************************************************)
\* The unpacked message u has answer records.
CarriesAnswers(u) == u.ok /\ u.v[1].ancount > 0

\* Thread t goes on from line 501 to the classification of questions.
Routes(t, questions) ==
  /\ th'[t].pc \in {"classify", "forward"}
  /\ th'[t].questions = questions
  /\ error' = error

C6_QueryWithAnswersRouted ==
  [][\A t \in Threads :
       (th[t].pc = "unpack" /\ th'[t].pc # "unpack"
          /\ CarriesAnswers(unpack_all(th[t].buf)))
         => Routes(t, unpack_all(th[t].buf).v[2])]_vars

(***************************************************************************)
(* C7.  As first stated: after handle_dns_query returns, every original    *)
(* question that was not found in the cache is cached under that question  *)
(* with the final answer at the same index, for the lifetime that answer's *)
(* ttl gives.                                                              *)
(***************************************************************************)
\* The entry of q was made from the answer a, at some time up to now.
CachedAs(q, a) ==
  /\ q \in DOMAIN data
  /\ data[q].value = a
  /\ data[q].expiry - a.ttl \in 0..now

C7_EveryQuestionCached ==
  \A t \in Threads :
    Returned(th[t]) =>
      \A i \in 1..Len(th[t].questions) :
        (i - 1) \notin Range(th[t].question_index_cached) =>
          /\ i <= Len(th[t].recv_answers)
          /\ CachedAs(th[t].questions[i], th[t].recv_answers[i])

(***************************************************************************)
(* C7, amended.  The cache update goes through the pairs (original         *)
(* question i, final answer i) for every i below both the number of        *)
(* questions and the number of final answers, and through no other         *)
(* question.  For each pair: when the cache holds the question unexpired   *)
(* the cache is left as it is; when the question is absent or expired it   *)
(* is cached with final answer i and expires ttl seconds after the time of *)
(* the update, ttl being that answer's field, a synthesized blocked answer *)
(* like any other.  (At the very second of expiry either may happen: C12.) *)
(***************************************************************************)
\* Thread t finishes the pair at th[t].idx in this step.
Updates(t) ==
  /\ th[t].pc = "update"
  /\ \/ th'[t].pc = "update" /\ th'[t].idx = th[t].idx + 1
     \/ th'[t].pc = "pack" /\ th[t].idx + 1 = Min(Len(th[t].questions), Len(th[t].recv_answers))

\* Thread t comes to the cache update in this step.
StartsUpdate(t) ==
  /\ th[t].pc = "blocked"
  /\ \/ th'[t].pc = "update" /\ th'[t].idx = 0
     \/ th'[t].pc = "pack" /\ Min(Len(th'[t].questions), Len(th'[t].recv_answers)) = 0

\* The step caches q with the answer a from the time of the step on, and
\* changes nothing else in the cache.
Caches(q, a, time) ==
  /\ DOMAIN data' = DOMAIN data \cup {q}
  /\ data'[q] = [value |-> a, expiry |-> time + a.ttl]
  /\ \A k \in DOMAIN data \ {q} : data'[k] = data[k]

UpdatedByRule(q, a, time) ==
  /\ (q \in DOMAIN data /\ data[q].expiry > time) => data' = data
  /\ (q \notin DOMAIN data \/ data[q].expiry < time) => Caches(q, a, time)
  /\ data' = data \/ Caches(q, a, time)

C7_CacheUpdate ==
  [][\A t \in Threads :
       /\ (th[t].pc = "update" /\ th'[t].pc \in {"update", "pack"}
             /\ (th'[t].pc # th[t].pc \/ th'[t].idx # th[t].idx)) =>
            /\ Updates(t)
            /\ UpdatedByRule(th[t].questions[th[t].idx + 1],
                             th[t].recv_answers[th[t].idx + 1], now')
       /\ (th[t].pc = "blocked" /\ ~Raised(t)) => StartsUpdate(t)]_vars

\* A response with fewer final answers than questions: the first question
\* is blocked and cached with its synthesized answer, the last one has no
\* answer and is not cached.
C7_Witness ==
  \E t \in Threads :
    /\ Returned(th[t])
    /\ Len(th[t].recv_answers) > 0
    /\ Len(th[t].recv_answers) < Len(th[t].questions)
    /\ 0 \in Range(th[t].question_index_blocked)
    /\ CachedAs(th[t].questions[1], th[t].recv_answers[1])
    /\ th[t].questions[Len(th[t].questions)] \notin DOMAIN data

(***************************************************************************)
(* C8.  After a request has failed, the listening socket and the upstream  *)
(* socket are still open, so that the loop goes on receiving and later     *)
(* requests are answered.                                                  *)
(***************************************************************************)
C8_FailureIsolated == error # "" => sock_open /\ resolver_open

(***************************************************************************)
(* C9.  In threaded mode no interleaving of the workers makes an operation *)
(* of the shared cache fail: no lookup ends with KeyError for a key that   *)
(* another worker deleted in the middle of it.                             *)
(***************************************************************************)
C9_CacheOperationsNeverFail == error # "KeyError"

(***************************************************************************)
(* C10.  In threaded mode at most one worker at a time is inside the       *)
(* sendto of threaded_handle_dns_query.                                    *)
(***************************************************************************)
Sending == {t \in Workers : th[t].pc = "sendto"}

C10_OneSender == Cardinality(Sending) <= 1

\* One worker is sending while another has its response and waits for the
\* lock.
C10_Witness ==
  \E t \in Workers : \E u \in Workers \ {t} :
    /\ th[t].pc = "sendto"
    /\ lock = t
    /\ Returned(th[u])

(***************************************************************************)
(* C11.  A question the resolver answered with ttl T, asked again after a  *)
(* positive time and while its entry is valid, is answered from the cache: *)
(* nothing is sent upstream, the response has rd = 0 and ra = 0, and the   *)
(* ttl of the answer returned is below T.                                  *)
(***************************************************************************)
\* The cache holds for q an answer of the resolver, set some time ago and
\* valid for some time yet.
AgedEntry(q) ==
  /\ q \in DOMAIN data
  /\ ~Matches(q)
  /\ AnswerFor(data[q].value, q)
  /\ data[q].expiry - data[q].value.ttl < now
  /\ now < data[q].expiry

\* The one answer of the unpacked response u has a ttl below T.
TtlBelow(u, T) == Len(AnswersOf(u)) = 1 /\ AnswersOf(u)[1].ttl < T

C11_CachedTtlReduced ==
  \A t \in Threads :
    (/\ Returned(th[t])
     /\ Len(th[t].questions) = 1
     /\ th[t].question_index_cached = <<0>>
     /\ AgedEntry(th[t].questions[1]))
      => /\ th[t].send = <<>>
         /\ NoRecursion(DNSHeader_from_buffer(th[t].returned))
         /\ TtlBelow(unpack_all(th[t].returned).v, data[th[t].questions[1]].value.ttl)

(***************************************************************************)
(* C12.  A get at a time now >= expiry, now = expiry included, returns     *)
(* absent and removes the entry.                                           *)
(***************************************************************************)
\* The step is a direct call of the method op.
Calls(op) == call'.op = op

C12_ExpiryStrict ==
  [][(/\ Calls("get")
      /\ call'.key \in DOMAIN data
      /\ data[call'.key].value # None
      /\ now' >= data[call'.key].expiry)
       => /\ call'.ret = None
          /\ call'.key \notin DOMAIN data']_vars

(***************************************************************************)
(* C13.  set(key, value, ttl) stores (value, now + ttl) under key,         *)
(* replacing the value and the expiry of an entry already there and        *)
(* touching no other key.  A get of a key whose expiry >= now returns the  *)
(* stored value, which is the value of the last set, and leaves the store  *)
(* as it is; a get of a key that is not in the store returns absent and    *)
(* leaves the store as it is.                                              *)
(***************************************************************************)
\* The step stores entry under key and changes nothing else in the store.
Stores(key, entry) ==
  /\ DOMAIN data' = DOMAIN data \cup {key}
  /\ data'[key] = entry
  /\ \A k \in DOMAIN data \ {key} : data'[k] = data[k]

C13_SetGet ==
  [][/\ Calls("set") =>
          Stores(call'.key, [value |-> call'.value, expiry |-> now' + call'.ttl])
     /\ (Calls("get") /\ call'.key \in DOMAIN data
           /\ data[call'.key].expiry >= now') =>
          /\ call'.ret = data[call'.key].value
          /\ data' = data
     /\ (Calls("get") /\ call.op = "set" /\ call'.key = call.key
           /\ data[call'.key].expiry >= now') =>
          call'.ret = call.value
     /\ (Calls("get") /\ call'.key \notin DOMAIN data) =>
          /\ call'.ret = None
          /\ data' = data]_vars

\* A key got at the very second of its expiry, the clock having moved: the
\* stored value came back and the entry is still there.
C13_Witness ==
  /\ call.op = "get"
  /\ call.key \in DOMAIN data
  /\ data[call.key].expiry = now
  /\ call.ret = data[call.key].value
  /\ call.ret # None
  /\ now > 0

(***************************************************************************)
(* C14.  key in cache is true exactly when get(key) at that time returns a *)
(* value: the key is stored, its expiry >= now, and its value is not None. *)
(* Checking an expired key removes its entry from the store, and only it;  *)
(* checking any other key leaves the store as it is.                       *)
(***************************************************************************)
\* The step removes key from the store and changes nothing else.
Removes(key) ==
  /\ DOMAIN data' = DOMAIN data \ {key}
  /\ \A k \in DOMAIN data' : data'[k] = data[k]

Gettable(key, time) ==
  /\ key \in DOMAIN data
  /\ data[key].expiry >= time
  /\ data[key].value # None

C14_Contains ==
  [][Calls("contains") =>
       /\ call'.ret = Gettable(call'.key, now')
       /\ IF call'.key \in DOMAIN data /\ data[call'.key].expiry < now'
          THEN Removes(call'.key)
          ELSE data' = data]_vars

\* The containment check of a key that was stored and had expired: the
\* answer was no and the key is gone.
C14_Witness ==
  /\ call.op = "contains"
  /\ call.key \in DOMAIN call.before
  /\ call.before[call.key].expiry < now
  /\ call.ret = FALSE
  /\ call.key \notin DOMAIN data

-----------------------------------------------------------------------------
\* C15: decode_name ends on every buffer, and on a buffer whose chain of
\* compression pointers comes back to an offset it ends with the
\* loop-detected error of line 126: it does not recurse until the
\* interpreter stops it.
C15_LoopDetected ==
  (/\ call.op = "decode_name"
   /\ <<call.buf, call.start_idx>> \in LoopingInputs)
    => call.ret = Err("loop detected")

-----------------------------------------------------------------------------
\* C16: unpack_all raises, and returns no message, on every buffer that ends
\* before what its counts and length fields declare: here every proper
\* beginning of a whole message, which cuts a question, a name, a pointer,
\* the fixed fields of an answer or the rdata of the last answer.
C16_TruncationFails ==
  (/\ call.op = "unpack_all"
   /\ Len(call.buf) < Len(call.whole))
    => ~call.ret.ok

-----------------------------------------------------------------------------
\* C17: encode_name_uncompressed raises for every name with a label of more
\* than 63 bytes, and what it returns never starts with a length byte above
\* 63.
HasLongLabel(name) == \E k \in DOMAIN split(name) : Len(split(name)[k]) > 63

C17_LongLabelFails ==
  call.op = "encode_name_uncompressed"
    => /\ HasLongLabel(call.name) => ~call.ret.ok
       /\ call.ret.ok => call.ret.v[1] <= 63

-----------------------------------------------------------------------------
\* C18: a header, a question list and an answer list packed by either packer
\* and unpacked again come back as they were: the same header, the same
\* questions and the same answers, names included, also when a name occurs
\* several times.  unpack_all returns no answer list when there is no answer;
\* that stands for the empty list.
AnswersUnpacked(ret) == IF Len(ret) = 3 THEN ret[3] ELSE <<>>

C18_RoundTrip ==
  call.op \in {"pack_all_uncompressed", "pack_all_compressed"}
    => /\ call.packed.ok
       /\ call.ret.ok
       /\ call.ret.v[1] = call.header
       /\ call.ret.v[2] = call.questions
       /\ AnswersUnpacked(call.ret.v) = call.answers

-----------------------------------------------------------------------------
\* C19: the answer made up for a blocked question has the question's name,
\* the question's type as its type and as its class, the default blocking
\* ttl, rdlength 4 and the four bytes of the redirect address 10.0.0.1; one
\* such answer is put into the response for each blocked question, at the
\* place list.insert gives it.
SynthesizedFor(question) ==
  [decoded_name |-> question.decoded_name, type_ |-> question.type_,
   class_ |-> question.type_, ttl |-> 60, rdlength |-> 4,
   rdata |-> <<10, 0, 0, 1>>]

SplicesBlocked(t) == th[t].pc = "blocked" /\ th'[t].pc \in {"update", "pack"}

C19_BlockedAnswer ==
  [][\A t \in Threads :
       SplicesBlocked(t)
         => /\ Len(th'[t].recv_answers)
                 = Len(th[t].recv_answers) + Len(th[t].question_index_blocked)
            /\ \A k \in 1..Len(th[t].question_index_blocked) :
                 th'[t].recv_answers[Min(th[t].question_index_blocked[k],
                                         Len(th[t].recv_answers) + k - 1) + 1]
                   = SynthesizedFor(th[t].questions[th[t].question_index_blocked[k] + 1])]_vars

\* The blocked question b/AAAA/IN, whose type is not its class, has got its
\* answer in a response that is about to be cached and packed.
C19_Witness ==
  \E t \in Threads :
    /\ th[t].pc \in {"update", "pack"}
    /\ Len(th[t].question_index_blocked) > 0
    /\ QuestionB \in Range(th[t].questions)
    /\ SynthesizedFor(QuestionB) \in Range(th[t].recv_answers)

-----------------------------------------------------------------------------
\* C20: whatever time passes while a query is routed, what handle_dns_query
\* reads from the cache for a question it classified as cached is an answer:
\* no list of answers ever holds None in the place of one.
C20_CachedAnswerPresent ==
  \A t \in Threads :
    \A k \in 1..Len(th[t].recv_answers) : th[t].recv_answers[k] # None

-----------------------------------------------------------------------------
\* C21: whatever queries were routed and however many answers the resolver
\* returned, every entry of the cache holds under its question an answer with
\* that question's name and type.
C21_CacheConsistent ==
  \A q \in DOMAIN data :
    /\ data[q].value.decoded_name = q.decoded_name
    /\ data[q].value.type_ = q.type_

-----------------------------------------------------------------------------
\* C22: in threaded mode, whatever the interleaving of the workers on the one
\* resolver socket, the reply a worker takes from the socket answers the query
\* that worker forwarded, and the response a worker is about to send to its
\* client carries the transaction id and the questions of that client's query.
\* The resolver of the model echoes the id and the questions of each query.
OwnReply(l) ==
  l.response # <<>> =>
    /\ DNSHeader_from_buffer(l.response).ok
    /\ DNSHeader_from_buffer(l.response).v.id = l.header.id

OwnResponse(l) ==
  l.pc \in {"return", "sendto"} =>
    /\ unpack_all(l.returned).ok
    /\ unpack_all(l.returned).v[1].id = unpack_all(l.buf).v[1].id
    /\ unpack_all(l.returned).v[2] = unpack_all(l.buf).v[2]

C22_OwnReplyReturned ==
  \A t \in Workers : OwnReply(th[t]) /\ OwnResponse(th[t])

-----------------------------------------------------------------------------
\* C23: in threaded mode every query the receive loop has taken and whose
\* questions are all answered without the resolver (here: all blocked, so
\* that each is found blocked or cached) gets its response in the end, even
\* if the resolver never answers the queries forwarded for other clients.
AnsweredLocally(buf) ==
  /\ unpack_all(buf).ok
  /\ Len(unpack_all(buf).v) = 2
  /\ Len(unpack_all(buf).v[2]) > 0
  /\ \A q \in Range(unpack_all(buf).v[2]) :
       \E loc \in blocklist : fnmatch(q.decoded_name, loc)

Queued(k) ==
  \E i \in 1..Len(tasks) : tasks[i].addr = k /\ AnsweredLocally(tasks[i].buf)

C23_LocalQueriesAnswered ==
  \A k \in 1..MaxRequestsThreaded : Queued(k) ~> (k \in answered)

=============================================================================
